---- MODULE Spec2Model ----
(***************************************************************************)
(* The offline cache worker of food-festival (src/service-worker.js):      *)
(* the install, activate and fetch listeners, run against the host's      *)
(* CacheStorage and network.                                               *)
(*                                                                         *)
(* A JavaScript string is a sequence of symbols; a multi-character lexeme  *)
(* of a cache name ("FoodFest", "-", "version_", "01") is one symbol, so   *)
(* that String.prototype.indexOf is computed, position by position, as the *)
(* engine computes it.                                                     *)
(***************************************************************************)
EXTENDS Integers, Sequences, FiniteSets, TLC

(* ------------------------------ bounds -------------------------------- *)

\* Requests the controlled page issues in one run.
MaxRequests == 2

\* Times the host installs a further instance of the worker script (an
\* update of the deployment, or a retry after a failed install).
MaxUpdates == 1

(* ----------------------- constants of the script ---------------------- *)

APP_PREFIX == <<"FoodFest", "-">>

VERSION == <<"version_", "01">>

CACHE_NAME == APP_PREFIX \o VERSION

FILES_TO_CACHE ==
    << "./index.html",
       "./events.html",
       "./tickets.html",
       "./schedule.html",
       "./assets/css/style.css",
       "./assets/css/bootstrap.css",
       "./assets/css/tickets.css",
       "./dist/app.bundle.js",
       "./dist/events.bundle.js",
       "./dist/tickets.bundle.js",
       "./dist/schedule.bundle.js" >>

(* ------------------ the environment the worker runs in ---------------- *)

\* Cache names earlier deployments left in the origin's CacheStorage: two
\* earlier generations of this app, another app's cache, and a name that
\* holds the prefix at a position greater than 0.
StaleName == APP_PREFIX \o <<"version_", "00">>

BetaName == APP_PREFIX \o <<"beta">>

OtherAppName == <<"other", "-", "app", "-", "cache">>

InfixName == <<"my", "-", "FoodFest", "-", "backup">>

ForeignNames == <<StaleName, BetaName, OtherAppName, InfixName>>

\* A resource of the site that is not in the manifest.
UnknownUrl == "./unknown.json"

Range(s) == {s[i] : i \in 1..Len(s)}

ManifestUrls == Range(FILES_TO_CACHE)

\* The URLs the page asks for: a document of the manifest and a resource
\* outside it.
RequestUrls == {"./index.html", UnknownUrl}

\* A response: the resource, the HTTP status class and the deployment
\* generation of the body (0: what an earlier deployment served and older
\* caches still hold, 1: what the server serves during this run).
Response(u, ok, g) == [url |-> u, ok |-> ok, gen |-> g]

\* What a call of fetch() settles with: a response (of any status) or a
\* rejection (offline, DNS failure).
NetworkError == [kind |-> "error"]

Fulfilled(resp) == [kind |-> "response", resp |-> resp]

NetworkResults(u) ==
    {Fulfilled(Response(u, TRUE, 1)), Fulfilled(Response(u, FALSE, 1)), NetworkError}

NoOutcome == [kind |-> "none"]

\* An empty entry map, and the maps the foreign caches hold.
NoEntries == [u \in {} |-> Response(u, TRUE, 0)]

ForeignEntries(n) ==
    IF n = StaleName THEN [u \in ManifestUrls |-> Response(u, TRUE, 0)]
    ELSE IF n = BetaName THEN [u \in {"./index.html"} |-> Response(u, TRUE, 0)]
    ELSE IF n = OtherAppName THEN [u \in {UnknownUrl} |-> Response(u, TRUE, 0)]
    ELSE NoEntries

(* ----------------------- JavaScript primitives ------------------------ *)

\* String.prototype.indexOf: the least 0-based position at which t occurs
\* in s, -1 when it occurs nowhere.
StringIndexOf(s, t) ==
    LET hits == {i \in 0..(Len(s) - Len(t)) : SubSeq(s, i + 1, i + Len(t)) = t}
    IN  IF hits = {} THEN -1 ELSE CHOOSE i \in hits : \A j \in hits : i <= j

\* Truthy taking "not found" for false: only a positive number is truthy.
TruthyPositive(n) == n > 0

\* ToBoolean of a number: every number but 0 (and NaN) is truthy.
Truthy(n) == n # 0

\* Array.prototype.indexOf: the least 0-based index of x in a, -1 if none.
ArrayIndexOf(a, x) ==
    LET hits == {i \in 1..Len(a) : a[i] = x}
    IN  IF hits = {} THEN -1 ELSE (CHOOSE i \in hits : \A j \in hits : i <= j) - 1

(* ----------------------------- CacheStorage --------------------------- *)

\* caches.keys(): the cache names in creation order.
CacheKeys(store) == [i \in 1..Len(store) |-> store[i].name]

CacheHas(store, n) == \E i \in 1..Len(store) : store[i].name = n

\* CacheOpen that creates a cache on every call, also when one of that name
\* is there.
CacheOpenAlways(store, n) == Append(store, [name |-> n, entries |-> NoEntries])

\* caches.open(n): the cache is created, empty, when absent.
CacheOpen(store, n) ==
    IF CacheHas(store, n) THEN store ELSE Append(store, [name |-> n, entries |-> NoEntries])

\* caches.delete(n): the whole named cache goes.
RECURSIVE CacheDelete(_, _)
CacheDelete(store, n) ==
    IF store = <<>> THEN <<>>
    ELSE IF Head(store).name = n THEN CacheDelete(Tail(store), n)
    ELSE <<Head(store)>> \o CacheDelete(Tail(store), n)

\* CachesMatch scoped to the current cache, as caches.open(CACHE_NAME)
\* followed by cache.match would be: the other caches are not searched.
CachesMatchCurrentOnly(store, u) ==
    LET hits == {i \in 1..Len(store) : store[i].name = CACHE_NAME /\ u \in DOMAIN store[i].entries}
    IN  IF hits = {} THEN NoOutcome
        ELSE Fulfilled(store[CHOOSE i \in hits : \A j \in hits : i <= j].entries[u])

\* caches.match(request): the caches are searched in creation order, over
\* every cache of the origin; the first entry for the URL is the result.
CachesMatch(store, u) ==
    LET hits == {i \in 1..Len(store) : u \in DOMAIN store[i].entries}
    IN  IF hits = {} THEN NoOutcome
        ELSE Fulfilled(store[CHOOSE i \in hits : \A j \in hits : i <= j].entries[u])

\* CachePutAll with the loop bound off by one: the last response of the
\* batch is not written.
CachePutAllButLast(store, n, resps) ==
    [i \in 1..Len(store) |->
        IF store[i].name = n
        THEN [store[i] EXCEPT !.entries =
                [u \in (DOMAIN store[i].entries) \cup {resps[k].url : k \in 1..(Len(resps) - 1)} |->
                    IF \E k \in 1..(Len(resps) - 1) : resps[k].url = u
                    THEN resps[CHOOSE k \in 1..(Len(resps) - 1) : resps[k].url = u]
                    ELSE store[i].entries[u]]]
        ELSE store[i]]

\* CachePutAll that does not look at the cache's name: the batch is written
\* to every cache of the store.
CachePutAllEverywhere(store, n, resps) ==
    [i \in 1..Len(store) |->
        [store[i] EXCEPT !.entries =
            [u \in (DOMAIN store[i].entries) \cup {resps[k].url : k \in 1..Len(resps)} |->
                IF \E k \in 1..Len(resps) : resps[k].url = u
                THEN resps[CHOOSE k \in 1..Len(resps) : resps[k].url = u]
                ELSE store[i].entries[u]]]]

\* The batch write that ends cache.addAll: every fetched response is put
\* under its URL, replacing an entry already there.
CachePutAll(store, n, resps) ==
    [i \in 1..Len(store) |->
        IF store[i].name = n
        THEN [store[i] EXCEPT !.entries =
                [u \in (DOMAIN store[i].entries) \cup {resps[k].url : k \in 1..Len(resps)} |->
                    IF \E k \in 1..Len(resps) : resps[k].url = u
                    THEN resps[CHOOSE k \in 1..Len(resps) : resps[k].url = u]
                    ELSE store[i].entries[u]]]
        ELSE store[i]]

(* ------------------------------- state -------------------------------- *)

VARIABLES
    caches,         \* CacheStorage: a sequence of [name, entries], in creation order
    phase,          \* the newest worker instance: parsed, installing, installed,
                    \* activating, activated, redundant
    instance,       \* how many instances the host has installed after the first
    controller,     \* an activated instance of the worker controls the page
    alive,          \* the worker process is running (the host stops it between events)
    installPc,      \* the install listener's position
    staged,         \* cache.addAll: the responses fetched so far, in manifest order
    installReport,  \* what waitUntil reported for install: none, complete, failed
    activatePc,     \* the activate listener's position
    keyList,        \* activate: the result of caches.keys()
    cacheKeeplist,  \* activate: the keep list
    deleting,       \* caches.delete calls not settled yet: [key, by]
    rejected,       \* activate: some caches.delete of this instance rejected
    activateReport, \* what waitUntil reported for activate: none, complete, failed
    req             \* the page's requests: [url, pc, netSent, reply, outcome, answers]

vars == <<caches, phase, instance, controller, alive, installPc, staged, installReport,
          activatePc, keyList, cacheKeeplist, deleting, rejected, activateReport, req>>

storeVars == <<caches>>

installVars == <<installPc, staged, installReport>>

activateVars == <<activatePc, keyList, cacheKeeplist, deleting, rejected, activateReport>>

RequestIds == 1..MaxRequests

IdleRequest ==
    [url |-> "", pc |-> "idle", netSent |-> <<>>, reply |-> NoOutcome,
     outcome |-> NoOutcome, answers |-> 0]

\* The CacheStorage contents the worker may find when it is first registered:
\* any of the foreign caches, in the order they were created.
InitialStores ==
    {SelectSeq(ForeignNames, LAMBDA n : n \in S) : S \in SUBSET {ForeignNames[i] : i \in 1..Len(ForeignNames)}}

Init ==
    /\ \E s \in InitialStores :
          caches = [i \in 1..Len(s) |-> [name |-> s[i], entries |-> ForeignEntries(s[i])]]
    /\ phase = "parsed"
    /\ instance = 0
    /\ controller = FALSE
    /\ alive = TRUE
    /\ installPc = "idle"
    /\ staged = <<>>
    /\ installReport = "none"
    /\ activatePc = "idle"
    /\ keyList = <<>>
    /\ cacheKeeplist = <<>>
    /\ deleting = {}
    /\ rejected = FALSE
    /\ activateReport = "none"
    /\ req = [r \in RequestIds |-> IdleRequest]

(* --------------------------- install listener ------------------------- *)

\* The host dispatches the install event to a freshly parsed instance.
HostInstall ==
    /\ phase = "parsed"
    /\ phase' = "installing"
    /\ installPc' = "open"
    /\ staged' = <<>>
    /\ installReport' = "none"
    /\ alive' = TRUE
    /\ UNCHANGED <<caches, instance, controller, activateVars, req>>

\* caches.open(CACHE_NAME) resolves; the callback calls cache.addAll.
InstallOpen ==
    /\ phase = "installing"
    /\ installPc = "open"
    /\ caches' = CacheOpen(caches, CACHE_NAME)
    /\ installPc' = "addAll"
    /\ UNCHANGED <<phase, instance, controller, alive, staged, installReport,
                   activateVars, req>>

\* cache.addAll fetches the next manifest entry: a response with an ok
\* status is staged; any other result rejects addAll with nothing stored,
\* and the responses fetched so far are dropped.
AddAllFetch ==
    /\ phase = "installing"
    /\ installPc = "addAll"
    /\ Len(staged) < Len(FILES_TO_CACHE)
    /\ \E res \in NetworkResults(FILES_TO_CACHE[Len(staged) + 1]) :
          IF res.kind = "response" /\ res.resp.ok
          THEN /\ staged' = Append(staged, res.resp)
               /\ installPc' = "addAll"
          ELSE /\ staged' = <<>>
               /\ installPc' = "rejected"
    /\ UNCHANGED <<caches, phase, instance, controller, alive, installReport,
                   activateVars, req>>

\* cache.addAll stores the whole batch once every entry was fetched.
AddAllStore ==
    /\ phase = "installing"
    /\ installPc = "addAll"
    /\ Len(staged) = Len(FILES_TO_CACHE)
    /\ caches' = CachePutAll(caches, CACHE_NAME, staged)
    /\ staged' = <<>>
    /\ installPc' = "stored"
    /\ UNCHANGED <<phase, instance, controller, alive, installReport, activateVars, req>>

\* The promise given to e.waitUntil fulfils: install is complete.
InstallResolve ==
    /\ phase = "installing"
    /\ installPc = "stored"
    /\ installPc' = "idle"
    /\ installReport' = "complete"
    /\ phase' = "installed"
    /\ UNCHANGED <<caches, instance, controller, alive, staged, activateVars, req>>

\* InstallReject with a catch that calls the install chain again: the
\* listener retries by itself instead of reporting the failure.
InstallRejectRetry ==
    /\ phase = "installing"
    /\ installPc = "rejected"
    /\ installPc' = "open"
    /\ UNCHANGED <<caches, phase, instance, controller, alive, staged, installReport,
                   activateVars, req>>

\* InstallReject with the rejection caught and swallowed: the promise given
\* to e.waitUntil fulfils although addAll rejected.
InstallRejectSwallowed ==
    /\ phase = "installing"
    /\ installPc = "rejected"
    /\ installPc' = "idle"
    /\ installReport' = "complete"
    /\ phase' = "installed"
    /\ UNCHANGED <<caches, instance, controller, alive, staged, activateVars, req>>

\* The promise given to e.waitUntil rejects: install failed, the host
\* discards the instance.
InstallReject ==
    /\ phase = "installing"
    /\ installPc = "rejected"
    /\ installPc' = "idle"
    /\ installReport' = "failed"
    /\ phase' = "redundant"
    /\ UNCHANGED <<caches, instance, controller, alive, staged, activateVars, req>>

(* -------------------------- activate listener ------------------------- *)

\* The host dispatches the activate event to the installed instance.
HostActivate ==
    /\ phase = "installed"
    /\ phase' = "activating"
    /\ activatePc' = "keys"
    /\ alive' = TRUE
    /\ UNCHANGED <<caches, instance, controller, installVars, keyList, cacheKeeplist,
                   deleting, rejected, activateReport, req>>

\* caches.keys() resolves with the names in the store at that moment.
ActivateKeys ==
    /\ phase = "activating"
    /\ activatePc = "keys"
    /\ keyList' = CacheKeys(caches)
    /\ activatePc' = "callback"
    /\ UNCHANGED <<caches, phase, instance, controller, alive, installVars,
                   cacheKeeplist, deleting, rejected, activateReport, req>>

\* KeepTest comparing the index with -1: a key is kept when the prefix
\* occurs in it anywhere.
KeepTestContains(key) == StringIndexOf(key, APP_PREFIX) # -1

\* The filter callback: the value of key.indexOf(APP_PREFIX), taken as a
\* boolean.
KeepTest(key) == Truthy(StringIndexOf(key, APP_PREFIX))

\* Keeplist without the push of CACHE_NAME.
KeeplistNoPush(keys) == SelectSeq(keys, KeepTest)

\* keyList.filter(...), the keys that pass the test in their order, followed
\* by cacheKeeplist.push(CACHE_NAME).
Keeplist(keys) == Append(SelectSeq(keys, KeepTest), CACHE_NAME)

\* DeleteList with the comparison inverted: the keys the keep list holds.
DeleteListInverted(keys, keep) ==
    {keys[i] : i \in {j \in 1..Len(keys) : ArrayIndexOf(keep, keys[j]) # -1}}

\* The keys the map callback calls caches.delete for: those the keep list
\* does not hold.
DeleteList(keys, keep) == {keys[i] : i \in {j \in 1..Len(keys) : ArrayIndexOf(keep, keys[j]) = -1}}

\* The callback of caches.keys(): builds the keep list and calls
\* caches.delete for every other key; Promise.all awaits the calls.
ActivateCallback ==
    /\ phase = "activating"
    /\ activatePc = "callback"
    /\ cacheKeeplist' = Keeplist(keyList)
    /\ deleting' = deleting \cup
                     {[key |-> k, by |-> instance] : k \in DeleteList(keyList, Keeplist(keyList))}
    /\ activatePc' = "waiting"
    /\ UNCHANGED <<caches, phase, instance, controller, alive, installVars, keyList,
                   rejected, activateReport, req>>

\* One caches.delete settles: the cache is gone, or the call rejects and
\* the cache stays.
DeleteSettle ==
    /\ \E d \in deleting :
          /\ deleting' = deleting \ {d}
          /\ \E ok \in BOOLEAN :
                IF ok
                THEN /\ caches' = CacheDelete(caches, d.key)
                     /\ rejected' = rejected
                ELSE /\ caches' = caches
                     /\ rejected' = (rejected \/ (d.by = instance /\ activatePc = "waiting"))
    /\ UNCHANGED <<phase, instance, controller, alive, installVars, activatePc, keyList,
                   cacheKeeplist, activateReport, req>>

\* ActivateResolve without the return of Promise.all: the promise given to
\* e.waitUntil fulfils as soon as the callback has run.
ActivateResolveUnawaited ==
    /\ phase = "activating"
    /\ activatePc = "waiting"
    /\ activatePc' = "idle"
    /\ activateReport' = "complete"
    /\ phase' = "activated"
    /\ controller' = TRUE
    /\ UNCHANGED <<caches, instance, alive, installVars, keyList, cacheKeeplist,
                   deleting, rejected, req>>

\* Promise.all fulfils once every caches.delete it was given has fulfilled:
\* activate is complete and the instance takes control.
ActivateResolve ==
    /\ phase = "activating"
    /\ activatePc = "waiting"
    /\ ~rejected
    /\ \A d \in deleting : d.by # instance
    /\ activatePc' = "idle"
    /\ activateReport' = "complete"
    /\ phase' = "activated"
    /\ controller' = TRUE
    /\ UNCHANGED <<caches, instance, alive, installVars, keyList, cacheKeeplist,
                   deleting, rejected, req>>

\* ActivateReject with the rejection caught and swallowed: the promise
\* given to e.waitUntil fulfils although a caches.delete rejected.
ActivateRejectSwallowed ==
    /\ phase = "activating"
    /\ activatePc = "waiting"
    /\ rejected
    /\ activatePc' = "idle"
    /\ activateReport' = "complete"
    /\ phase' = "activated"
    /\ controller' = TRUE
    /\ UNCHANGED <<caches, instance, alive, installVars, keyList, cacheKeeplist,
                   deleting, rejected, req>>

\* Promise.all rejects as soon as one caches.delete rejected, whatever the
\* state of the others: activate failed. The host activates the instance
\* all the same.
ActivateReject ==
    /\ phase = "activating"
    /\ activatePc = "waiting"
    /\ rejected
    /\ activatePc' = "idle"
    /\ activateReport' = "failed"
    /\ phase' = "activated"
    /\ controller' = TRUE
    /\ UNCHANGED <<caches, instance, alive, installVars, keyList, cacheKeeplist,
                   deleting, rejected, req>>

(* ---------------------------- fetch listener -------------------------- *)

InFlight(r) == req[r].pc \in {"matching", "fetching"}

\* The controlled page issues a request; the host dispatches the fetch
\* event and the listener calls caches.match(e.request).
PageRequest ==
    /\ controller
    /\ \E r \in RequestIds, u \in RequestUrls :
          /\ req[r].pc = "idle"
          /\ \A q \in RequestIds : q < r => req[q].pc # "idle"
          /\ req' = [req EXCEPT ![r] = [IdleRequest EXCEPT !.url = u, !.pc = "matching"]]
    /\ alive' = TRUE
    /\ UNCHANGED <<caches, phase, instance, controller, installVars, activateVars>>

\* ThenCallback with the test of the branch inverted: a stored response is
\* passed over and the network is asked.
ThenCallbackInverted(q, found) ==
    IF found.kind # "response"
    THEN [q EXCEPT !.pc = "answered", !.outcome = found, !.answers = q.answers + 1]
    ELSE [q EXCEPT !.pc = "fetching", !.netSent = Append(q.netSent, q.url)]

\* ThenCallback with the else branch returning nothing useful: on a miss no
\* network call is made and the promise given to respondWith never settles.
ThenCallbackNoFallback(q, found) ==
    IF found.kind = "response"
    THEN [q EXCEPT !.pc = "answered", !.outcome = found, !.answers = q.answers + 1]
    ELSE [q EXCEPT !.pc = "stuck"]

\* What the callback of caches.match does with the value it is given: a
\* stored response is the answer; with none, fetch(e.request) is called.
ThenCallback(q, found) ==
    IF found.kind = "response"
    THEN [q EXCEPT !.pc = "answered", !.outcome = found, !.answers = q.answers + 1]
    ELSE [q EXCEPT !.pc = "fetching", !.netSent = Append(q.netSent, q.url)]

\* FetchMatchOf consulting a flag the script would keep in memory and set
\* when its activate listener ends: without the flag the lookup's result is
\* ignored and the network is asked.
FetchMatchOfWhenActivated(r) ==
    /\ req[r].pc = "matching"
    /\ req' = [req EXCEPT ![r] =
                 ThenCallback(req[r], IF phase = "activated"
                                      THEN CachesMatch(caches, req[r].url)
                                      ELSE NoOutcome)]
    /\ UNCHANGED <<caches, phase, instance, controller, alive, installVars, activateVars>>

\* caches.match(e.request) resolves and its callback runs.
FetchMatchOf(r) ==
    /\ req[r].pc = "matching"
    /\ req' = [req EXCEPT ![r] = ThenCallback(req[r], CachesMatch(caches, req[r].url))]
    /\ UNCHANGED <<caches, phase, instance, controller, alive, installVars, activateVars>>

FetchMatch == \E r \in RequestIds : FetchMatchOf(r)

\* RespondWith with an offline fallback: a failed network call is answered
\* with a substituted page.
RespondWithFallback(result) ==
    IF result.kind = "error" THEN Fulfilled(Response("./index.html", TRUE, 0)) ELSE result

\* What e.respondWith hands to the page when the promise of fetch(e.request)
\* settles: that very result.
RespondWith(result) == result

\* FetchSettleOf with one promise shared by the handlers in flight: when a
\* network call settles, every request waiting for the network is answered
\* with its result.
FetchSettleOfShared(r) ==
    /\ req[r].pc = "fetching"
    /\ \E res \in NetworkResults(req[r].netSent[Len(req[r].netSent)]) :
          req' = [q \in RequestIds |->
                    IF req[q].pc = "fetching"
                    THEN [req[q] EXCEPT !.pc = "answered", !.reply = res,
                                        !.outcome = RespondWith(res),
                                        !.answers = @ + 1]
                    ELSE req[q]]
    /\ UNCHANGED <<caches, phase, instance, controller, alive, installVars, activateVars>>

\* FetchSettleOf that also writes the network's response into the current
\* cache before it answers.
FetchSettleOfWriteBack(r) ==
    /\ req[r].pc = "fetching"
    /\ \E res \in NetworkResults(req[r].netSent[Len(req[r].netSent)]) :
          /\ req' = [req EXCEPT ![r] = [@ EXCEPT !.pc = "answered", !.reply = res,
                                                 !.outcome = RespondWith(res),
                                                 !.answers = @ + 1]]
          /\ caches' = IF res.kind = "response"
                       THEN CachePutAll(caches, CACHE_NAME, <<res.resp>>)
                       ELSE caches
    /\ UNCHANGED <<phase, instance, controller, alive, installVars, activateVars>>

\* The network call of a cache miss settles and the page is answered.
FetchSettleOf(r) ==
    /\ req[r].pc = "fetching"
    /\ \E res \in NetworkResults(req[r].netSent[Len(req[r].netSent)]) :
          req' = [req EXCEPT ![r] = [@ EXCEPT !.pc = "answered", !.reply = res,
                                              !.outcome = RespondWith(res),
                                              !.answers = @ + 1]]
    /\ UNCHANGED <<caches, phase, instance, controller, alive, installVars, activateVars>>

FetchSettle == \E r \in RequestIds : FetchSettleOf(r)

(* -------------------------------- host -------------------------------- *)

\* The host stops the idle worker: no event is being handled. The script
\* keeps nothing in memory, so nothing is lost.
HostTerminate ==
    /\ alive
    /\ phase \notin {"installing", "activating"}
    /\ \A r \in RequestIds : ~InFlight(r)
    /\ alive' = FALSE
    /\ UNCHANGED <<caches, phase, instance, controller, installVars, activateVars, req>>

\* The host finds the script changed (a deployment that kept VERSION) or
\* registers it again after a failed install: a new instance is parsed.
HostUpdate ==
    /\ phase \in {"activated", "redundant"}
    /\ instance < MaxUpdates
    /\ instance' = instance + 1
    /\ phase' = "parsed"
    /\ installPc' = "idle"
    /\ staged' = <<>>
    /\ installReport' = "none"
    /\ activatePc' = "idle"
    /\ keyList' = <<>>
    /\ cacheKeeplist' = <<>>
    /\ rejected' = FALSE
    /\ activateReport' = "none"
    /\ alive' = TRUE
    /\ UNCHANGED <<caches, controller, deleting, req>>

Next ==
    \/ HostInstall
    \/ InstallOpen
    \/ AddAllFetch
    \/ AddAllStore
    \/ InstallResolve
    \/ InstallReject
    \/ HostActivate
    \/ ActivateKeys
    \/ ActivateCallback
    \/ DeleteSettle
    \/ ActivateResolve
    \/ ActivateReject
    \/ PageRequest
    \/ FetchMatch
    \/ FetchSettle
    \/ HostTerminate
    \/ HostUpdate

Spec == Init /\ [][Next]_vars

\* The stores the liveness of the fetch listener is checked from: the empty
\* store of a first visit, a store with a stale generation to delete, and
\* one that also has another app's cache, which holds the resource outside
\* the manifest.
FairInit ==
    /\ Init
    /\ CacheKeys(caches) \in {<<>>, <<StaleName>>, <<StaleName, OtherAppName>>}

\* The host resolves every cache lookup and the network settles every call
\* (with a response or a failure).
FairSpec ==
    /\ FairInit
    /\ [][Next]_vars
    /\ \A r \in RequestIds : WF_vars(FetchMatchOf(r)) /\ WF_vars(FetchSettleOf(r))

(* ------------------------- vocabulary of the claims ------------------- *)

\* Some cache of the store holds an entry for the URL.
HasEntry(store, u) == \E i \in 1..Len(store) : u \in DOMAIN store[i].entries

\* The responses the store holds for the URL, over all its caches.
StoredResponses(store, u) ==
    {store[i].entries[u] : i \in {j \in 1..Len(store) : u \in DOMAIN store[j].entries}}

\* The entry map of the named cache, the empty map when there is no such
\* cache.
CacheOf(store, n) ==
    IF \E i \in 1..Len(store) : store[i].name = n
    THEN store[CHOOSE i \in 1..Len(store) : store[i].name = n].entries
    ELSE NoEntries

\* The named cache is the same in both stores: there or not, and with the
\* same entries.
SameCache(s, t, n) ==
    /\ (\E i \in 1..Len(s) : s[i].name = n) <=> (\E i \in 1..Len(t) : t[i].name = n)
    /\ CacheOf(s, n) = CacheOf(t, n)

\* The name begins with the prefix.
StartsWith(n, p) == Len(n) >= Len(p) /\ \A i \in 1..Len(p) : n[i] = p[i]

\* The prefix occurs somewhere in the name.
Contains(n, p) == \E k \in 0..(Len(n) - Len(p)) : \A i \in 1..Len(p) : n[k + i] = p[i]

\* The step is the one in which the lookup of request r resolves.
LookupStep(r) == req[r].pc = "matching" /\ req'[r].pc # "matching"

AllNames == {CACHE_NAME} \cup {ForeignNames[i] : i \in 1..Len(ForeignNames)}

(* -------------------------------- claims ------------------------------ *)

\* C1 (cache-first): whenever the lookup of a request resolves on a store in
\* which some cache holds an entry for the request, the page is answered in
\* that step with a response stored for it, and no network call is made for
\* the request, then or later.
C1_CacheFirst ==
    /\ [][\A r \in RequestIds :
            (LookupStep(r) /\ HasEntry(caches, req[r].url)) =>
                /\ req'[r].pc = "answered"
                /\ req'[r].outcome.kind = "response"
                /\ req'[r].outcome.resp \in StoredResponses(caches, req[r].url)
                /\ req'[r].netSent = <<>>
                /\ req'[r].answers = 1]_vars
    /\ [][\A r \in RequestIds : req[r].pc = "answered" => req'[r] = req[r]]_vars

\* C1: a request was answered from the cache without a network call.
C1_Witness ==
    \E r \in RequestIds :
        /\ req[r].pc = "answered"
        /\ req[r].outcome.kind = "response"
        /\ req[r].netSent = <<>>
        /\ req[r].reply = NoOutcome

\* C2 (network fallback): whenever the lookup of a request resolves on a
\* store in which no cache holds an entry for it, exactly one network call is
\* made, carrying the request's own URL; the page's outcome is what that call
\* settled with, response or failure, and the page is answered once.
C2_NetworkFallback ==
    /\ [][\A r \in RequestIds :
            (LookupStep(r) /\ ~HasEntry(caches, req[r].url)) =>
                /\ req'[r].pc = "fetching"
                /\ req'[r].netSent = <<req[r].url>>
                /\ req'[r].answers = 0]_vars
    /\ [](\A r \in RequestIds :
            req[r].netSent # <<>> =>
                /\ req[r].netSent = <<req[r].url>>
                /\ req[r].pc \in {"fetching", "answered"}
                /\ req[r].pc = "fetching" => req[r].outcome = NoOutcome /\ req[r].answers = 0
                /\ req[r].pc = "answered" =>
                      /\ req[r].reply \in NetworkResults(req[r].url)
                      /\ req[r].outcome = req[r].reply
                      /\ req[r].answers = 1)

\* C2: a cache miss went to the network once and the network's failure
\* reached the page.
C2_Witness ==
    \E r \in RequestIds :
        /\ req[r].pc = "answered"
        /\ req[r].netSent = <<req[r].url>>
        /\ req[r].reply = NetworkError
        /\ req[r].outcome = NetworkError

\* C3 (exactly one outcome): under fairness of the cache lookup and of the
\* network, every intercepted request is eventually answered; a request is
\* answered at most once and its outcome never changes afterwards, whatever
\* install, activate and the other requests do meanwhile.
C3_ExactlyOneOutcome ==
    /\ \A r \in RequestIds : (req[r].pc # "idle") ~> (req[r].pc = "answered")
    /\ [](\A r \in RequestIds :
            /\ req[r].answers <= 1
            /\ (req[r].pc = "answered") <=> (req[r].answers = 1)
            /\ (req[r].pc = "answered") <=> (req[r].outcome # NoOutcome))
    /\ [][\A r \in RequestIds :
            req[r].pc = "answered" => req'[r].outcome = req[r].outcome /\ req'[r].answers = 1]_vars

\* C3: two requests were answered, one from the cache and one by the
\* network, while a further instance of the worker was installing.
C3_Witness ==
    /\ instance > 0
    /\ phase \in {"installing", "activating"}
    /\ \E r, q \in RequestIds :
          /\ r # q
          /\ req[r].pc = "answered" /\ req[r].netSent = <<>>
          /\ req[q].pc = "answered" /\ req[q].netSent # <<>>

\* C4 (install atomicity): once the fetch of a manifest entry has failed,
\* the only thing the install listener does is report failure; an instance
\* whose install failed is discarded and is never marked installed, and no
\* response with a failure status is ever stored in the current cache.
C4_InstallAtomicity ==
    /\ [](installPc = "rejected" => phase = "installing" /\ installReport = "none")
    /\ [][installPc = "rejected" =>
            \/ installPc' = "rejected" /\ installReport' = "none" /\ phase' = "installing"
            \/ installReport' = "failed" /\ phase' = "redundant"]_vars
    /\ [](installReport = "failed" => phase = "redundant")
    /\ [][(installReport = "failed" /\ instance' = instance) =>
            installReport' = "failed" /\ phase' = "redundant"]_vars
    /\ [](CacheHas(caches, CACHE_NAME) =>
            \A u \in DOMAIN CacheOf(caches, CACHE_NAME) : CacheOf(caches, CACHE_NAME)[u].ok)

\* C4: the first install failed on some entry: the instance is discarded,
\* the cache it opened is empty and no worker controls the page.
C4_Witness ==
    /\ installReport = "failed"
    /\ phase = "redundant"
    /\ ~controller
    /\ CacheHas(caches, CACHE_NAME)
    /\ CacheOf(caches, CACHE_NAME) = NoEntries

\* C5 (install completion): whenever install has been reported complete,
\* the cache named CACHE_NAME exists and holds, for every path of
\* FILES_TO_CACHE, a response fetched for that path.
C5_InstallComplete ==
    installReport = "complete" =>
        /\ CacheHas(caches, CACHE_NAME)
        /\ \A i \in 1..Len(FILES_TO_CACHE) :
              /\ FILES_TO_CACHE[i] \in DOMAIN CacheOf(caches, CACHE_NAME)
              /\ CacheOf(caches, CACHE_NAME)[FILES_TO_CACHE[i]] \in
                    {x.resp : x \in NetworkResults(FILES_TO_CACHE[i]) \ {NetworkError}}

\* C5: the first install was just reported complete.
C5_Witness ==
    /\ installReport = "complete"
    /\ phase = "installed"
    /\ instance = 0

\* C6 (manifest served offline): once install was reported complete, and as
\* long as an instance is in control, the store answers every path of
\* FILES_TO_CACHE, and
\* the lookup of a request for such a path ends in an answer from the cache
\* with no network call, whatever activations, installs of further
\* instances, fetches and terminations came before.
C6_ManifestFromCache ==
    /\ []((installReport = "complete" \/ controller) =>
            \A u \in ManifestUrls : HasEntry(caches, u))
    /\ [][\A r \in RequestIds :
            (LookupStep(r) /\ req[r].url \in ManifestUrls) =>
                /\ req'[r].pc = "answered"
                /\ req'[r].outcome.kind = "response"
                /\ req'[r].outcome.resp.url = req[r].url
                /\ req'[r].netSent = <<>>]_vars

\* C6: after a second activation and a termination of the worker, a
\* manifest path was answered with the response the install stored.
C6_Witness ==
    /\ instance = 1
    /\ phase = "activated"
    /\ ~alive
    /\ \E r \in RequestIds :
          /\ req[r].url \in ManifestUrls
          /\ req[r].pc = "answered"
          /\ req[r].netSent = <<>>
          /\ req[r].outcome = Fulfilled(Response(req[r].url, TRUE, 1))

\* C7 (stale generations collected): while activate stands reported
\* complete, no cache of the store other than CACHE_NAME has a name that
\* begins with APP_PREFIX.
C7_StaleCollected ==
    activateReport = "complete" =>
        \A i \in 1..Len(caches) :
            StartsWith(caches[i].name, APP_PREFIX) => caches[i].name = CACHE_NAME

\* C7: activate completed after finding two stale generations, and both
\* are gone.
C7_Witness ==
    /\ activateReport = "complete"
    /\ {StaleName, BetaName} \subseteq Range(keyList)
    /\ ~CacheHas(caches, StaleName)
    /\ ~CacheHas(caches, BetaName)
    /\ CacheHas(caches, CACHE_NAME)

\* C8 as stated: the keep list is CACHE_NAME plus every key that contains
\* APP_PREFIX, and after a complete activate every key containing the
\* prefix still exists.
C8_KeepsPrefixed ==
    /\ (activatePc = "waiting" \/ activateReport # "none") =>
          Range(cacheKeeplist) =
              {CACHE_NAME} \cup {k \in Range(keyList) : Contains(k, APP_PREFIX)}
    /\ activateReport = "complete" =>
          \A k \in Range(keyList) : Contains(k, APP_PREFIX) => CacheHas(caches, k)

\* C8 (amended): the keep list is CACHE_NAME plus every key that does not
\* begin with APP_PREFIX; caches.delete is called for exactly the other keys,
\* those that begin with the prefix and are not CACHE_NAME; after a complete
\* activate the keys that still exist are exactly the kept ones, so an
\* earlier generation is deleted and another app's cache is retained.
C8_KeepsUnprefixed ==
    /\ (activatePc = "waiting" \/ activateReport # "none") =>
          Range(cacheKeeplist) =
              {CACHE_NAME} \cup {k \in Range(keyList) : ~StartsWith(k, APP_PREFIX)}
    /\ activatePc = "waiting" =>
          {d.key : d \in {x \in deleting : x.by = instance}} \subseteq
              {k \in Range(keyList) : StartsWith(k, APP_PREFIX) /\ k # CACHE_NAME}
    /\ activateReport = "complete" =>
          \A k \in Range(keyList) :
              CacheHas(caches, k) <=> (k = CACHE_NAME \/ ~StartsWith(k, APP_PREFIX))

\* C8: the scenario of the claim: activate completed on a store with an
\* earlier generation, the current one and another app's cache; the earlier
\* generation is gone, the other two remain.
C8_Witness ==
    /\ activateReport = "complete"
    /\ {StaleName, CACHE_NAME, OtherAppName} \subseteq Range(keyList)
    /\ ~CacheHas(caches, StaleName)
    /\ CacheHas(caches, CACHE_NAME)
    /\ CacheHas(caches, OtherAppName)

\* The step belongs to the install listener: it moves the listener's
\* position or its batch while the instance is installing.
InstallStep == phase = "installing" /\ (installPc' # installPc \/ staged' # staged)

\* C9 (generational isolation): a step of the install listener, in a
\* successful or a failing install, leaves every cache other than CACHE_NAME
\* as it was: none is created, none deleted, no entry changed.
C9_InstallIsolation ==
    [][InstallStep =>
         \A n \in AllNames \ {CACHE_NAME} : SameCache(caches, caches', n)]_vars

\* C9: install completed next to an earlier generation, which still holds
\* the entries it had, while the current cache holds the new ones.
C9_Witness ==
    /\ installReport = "complete"
    /\ CacheHas(caches, StaleName)
    /\ CacheOf(caches, StaleName) = ForeignEntries(StaleName)
    /\ CacheHas(caches, CACHE_NAME)
    /\ CacheOf(caches, CACHE_NAME)["./index.html"] = Response("./index.html", TRUE, 1)

\* C10 (activate waits for its deletions): while activate stands reported
\* complete, no caches.delete the instance called is still pending.
C10_ActivateAwaitsDeletes ==
    activateReport = "complete" => \A d \in deleting : d.by # instance

\* C10: activate completed after calling caches.delete for two keys.
C10_Witness ==
    /\ activateReport = "complete"
    /\ Cardinality(DeleteList(keyList, cacheKeeplist)) >= 2
    /\ deleting = {}

\* C11 (failed install): an instance whose install failed is discarded: it
\* is never installed, activating or activated, its activate listener never
\* runs and its install listener does nothing more (no retry of its own).
\* Control of the page changes only at the end of the activation of an
\* instance whose install completed, so a failed install leaves the page
\* with the controller it had, and without a controller no request is
\* handled.
C11_FailedInstall ==
    /\ [](installReport = "failed" =>
            /\ phase = "redundant"
            /\ installPc = "idle"
            /\ activatePc = "idle"
            /\ activateReport = "none")
    /\ [][installPc = "rejected" =>
            /\ installPc' \in {"rejected", "idle"}
            /\ installPc' = "idle" => installReport' = "failed"
            /\ controller' = controller]_vars
    /\ [][(installReport = "failed" /\ instance' = instance) =>
            UNCHANGED <<phase, installPc, staged, installReport, activatePc,
                        activateReport, controller>>]_vars
    /\ [][controller' # controller =>
            phase = "activating" /\ installReport = "complete" /\ controller']_vars
    /\ [](~controller => \A r \in RequestIds : req[r].pc = "idle")

\* C11: the install of a second instance failed; the first instance is
\* still in control and has answered a request.
C11_Witness ==
    /\ instance = 1
    /\ installReport = "failed"
    /\ phase = "redundant"
    /\ controller
    /\ \E r \in RequestIds : req[r].pc = "answered"

\* C12 (fetch leaves the store alone): a step that dispatches, looks up or
\* answers a request changes nothing in the store, whether the request hits
\* or misses and whatever the network returns; a cache gets or changes an
\* entry only in the batch write of install, and only the current cache.
C12_FetchReadOnly ==
    /\ [][req' # req => caches' = caches]_vars
    /\ [][\A n \in AllNames :
            CacheOf(caches', n) # CacheOf(caches, n) =>
                \/ ~CacheHas(caches', n)
                \/ n = CACHE_NAME /\ phase = "installing" /\ installPc = "addAll"
                                  /\ installPc' = "stored"]_vars

\* C12: a request outside the manifest missed, the network answered it with
\* an ok response, and no cache holds an entry for it.
C12_Witness ==
    \E r \in RequestIds :
        /\ req[r].pc = "answered"
        /\ req[r].url = UnknownUrl
        /\ req[r].outcome = Fulfilled(Response(UnknownUrl, TRUE, 1))
        /\ ~HasEntry(caches, UnknownUrl)
        /\ CacheHas(caches, CACHE_NAME)

\* The key lists drawn from a key list: its keys, in their order, for every
\* subset of them.
SubLists(keys) == {SelectSeq(keys, LAMBDA k : k \in S) : S \in SUBSET Range(keys)}

\* The keys the activate listener calls caches.delete for when caches.keys()
\* gives it this key list.
DeletedFor(keys) == DeleteList(keys, Keeplist(keys))

\* C13 (the current cache survives activate): caches.delete is never called
\* for CACHE_NAME, for the key list the listener is given and for every key
\* list drawn from it, with or without CACHE_NAME in it; and no step of an
\* activation, nor the settling of a deletion, fulfilled or rejected,
\* removes the current cache or changes an entry of it.
C13_CurrentCacheKept ==
    /\ [](\A d \in deleting : d.key # CACHE_NAME)
    /\ [](activatePc = "callback" =>
            \A keys \in SubLists(keyList) : CACHE_NAME \notin DeletedFor(keys))
    /\ [][(phase = "activating" \/ deleting' # deleting) =>
            SameCache(caches, caches', CACHE_NAME)]_vars

\* C13: activate was reported failed with a deletion still pending, and the
\* current cache holds the whole manifest.
C13_Witness ==
    /\ activateReport = "failed"
    /\ deleting # {}
    /\ CacheHas(caches, CACHE_NAME)
    /\ DOMAIN CacheOf(caches, CACHE_NAME) = ManifestUrls

\* The responses the store holds for the URL in caches other than the
\* current one.
ForeignResponses(store, u) ==
    {store[i].entries[u] :
        i \in {j \in 1..Len(store) : store[j].name # CACHE_NAME /\ u \in DOMAIN store[j].entries}}

\* C14 (lookup over every cache): when the lookup of a request resolves on a
\* store in which the current cache, if there, has no entry for the request
\* and some other cache has one, the page is answered in that step with an
\* entry of such a cache and no network call is made.
C14_LookupUnscoped ==
    [][\A r \in RequestIds :
         (/\ LookupStep(r)
          /\ req[r].url \notin DOMAIN CacheOf(caches, CACHE_NAME)
          /\ ForeignResponses(caches, req[r].url) # {}) =>
              /\ req'[r].pc = "answered"
              /\ req'[r].outcome.kind = "response"
              /\ req'[r].outcome.resp \in ForeignResponses(caches, req[r].url)
              /\ req'[r].netSent = <<>>]_vars

\* C14: a request outside the manifest was answered with the entry another
\* app's cache holds, while the current cache exists and has none for it.
C14_Witness ==
    \E r \in RequestIds :
        /\ req[r].pc = "answered"
        /\ req[r].url = UnknownUrl
        /\ req[r].netSent = <<>>
        /\ req[r].outcome = Fulfilled(ForeignEntries(OtherAppName)[UnknownUrl])
        /\ CacheHas(caches, CACHE_NAME)
        /\ UnknownUrl \notin DOMAIN CacheOf(caches, CACHE_NAME)

\* C15 (deletion failure): when a caches.delete of the running activation
\* settles and leaves its cache in the store, the deletion has failed and
\* the activation, when it ends, is reported failed, never complete, with
\* the store as the deletions left it; a cache goes only when a deletion of
\* it settles, and a cache other than the current one, once gone, does not
\* come back.
C15_DeleteFailure ==
    /\ [][(/\ activatePc = "waiting"
            /\ \E d \in deleting \ deleting' : d.by = instance /\ CacheHas(caches', d.key)) =>
                rejected']_vars
    /\ [][(activatePc = "waiting" /\ rejected) =>
            /\ rejected'
            /\ activateReport' \in {"none", "failed"}
            /\ activatePc' # "waiting" => activateReport' = "failed" /\ caches' = caches]_vars
    /\ [](activateReport = "complete" => ~rejected)
    /\ [][\A n \in AllNames :
            (CacheHas(caches, n) /\ ~CacheHas(caches', n)) =>
                \E d \in deleting \ deleting' : d.key = n]_vars
    /\ [][\A n \in AllNames \ {CACHE_NAME} :
            ~CacheHas(caches, n) => ~CacheHas(caches', n)]_vars

\* C15: an activation found two stale generations; one deletion succeeded,
\* the other failed, and activate was reported failed: the first cache is
\* gone, the second is still there.
C15_Witness ==
    /\ activateReport = "failed"
    /\ {StaleName, BetaName} \subseteq Range(keyList)
    /\ deleting = {}
    /\ ~CacheHas(caches, StaleName)
    /\ CacheHas(caches, BetaName)

\* C16 (idempotent install and activate): whenever an install has been
\* reported complete, be it the first, one after a failed install or one
\* after a successful install, the store has one cache named CACHE_NAME and
\* it holds exactly the responses fetched for the paths of FILES_TO_CACHE;
\* and whenever an activate has been reported complete, the activate
\* listener, run on the store as it is, would call caches.delete for nothing.
C16_Idempotent ==
    /\ installReport = "complete" =>
          /\ Cardinality({i \in 1..Len(caches) : caches[i].name = CACHE_NAME}) = 1
          /\ CacheOf(caches, CACHE_NAME) = [u \in ManifestUrls |-> Response(u, TRUE, 1)]
    /\ activateReport = "complete" => DeletedFor(CacheKeys(caches)) = {}

\* C16: while the first instance controls the page, a second instance has
\* installed again and its activate listener, run again, found nothing to
\* delete.
C16_Witness ==
    /\ instance = 1
    /\ controller
    /\ installReport = "complete"
    /\ phase = "activating"
    /\ activatePc = "waiting"
    /\ CACHE_NAME \in Range(keyList)
    /\ DeleteList(keyList, cacheKeeplist) = {}
    /\ deleting = {}

\* The first entry the store holds for the URL, in the creation order of
\* its caches.
FirstStored(store, u) ==
    store[CHOOSE i \in 1..Len(store) :
            /\ u \in DOMAIN store[i].entries
            /\ \A j \in 1..(i - 1) : u \notin DOMAIN store[j].entries].entries[u]

\* C17 (no state of its own): what the lookup step of a request does is a
\* function of the request and the store alone, the same whatever the
\* lifecycle phase, the instance, the reports and the running state of the
\* worker are; the outcome of a miss is what the network returned; and a
\* termination of the worker changes nothing but the worker's running state.
C17_Stateless ==
    /\ [][\A r \in RequestIds :
            LookupStep(r) =>
                req'[r] = IF HasEntry(caches, req[r].url)
                          THEN [req[r] EXCEPT !.pc = "answered",
                                              !.outcome = Fulfilled(FirstStored(caches, req[r].url)),
                                              !.answers = 1]
                          ELSE [req[r] EXCEPT !.pc = "fetching",
                                              !.netSent = <<req[r].url>>]]_vars
    /\ [][\A r \in RequestIds :
            (req[r].pc = "fetching" /\ req'[r] # req[r]) =>
                /\ req'[r].reply \in NetworkResults(req[r].url)
                /\ req'[r] = [req[r] EXCEPT !.pc = "answered",
                                             !.reply = req'[r].reply,
                                             !.outcome = req'[r].reply,
                                             !.answers = 1]]_vars
    /\ [][(alive /\ ~alive') =>
            UNCHANGED <<caches, phase, instance, controller, installVars, activateVars, req>>]_vars

\* C17: two requests for the same URL, the second dispatched after the
\* first, got the same answer from the store, although a further instance
\* of the worker was installed in the run; the worker is now terminated.
C17_Witness ==
    /\ instance = 1
    /\ ~alive
    /\ req[1].pc = "answered"
    /\ req[2].pc = "answered"
    /\ req[1].url = req[2].url
    /\ req[1].netSent = <<>>
    /\ req[1].outcome = req[2].outcome

\* Another request than r is being handled.
OtherInFlight(r) == \E q \in RequestIds \ {r} : InFlight(q)

\* C18 (concurrent fetches): a step of one request's handler changes
\* neither the store nor the record of any other request; and a request
\* handled while another is in flight gets what it would get alone on the
\* store it is looked up in: the first stored entry and no network call on
\* a hit, one network call for its own URL and that call's result on a miss.
C18_ConcurrentFetches ==
    /\ [][\A r \in RequestIds :
            req'[r] # req[r] =>
                /\ caches' = caches
                /\ \A q \in RequestIds \ {r} : req'[q] = req[q]]_vars
    /\ [][\A r \in RequestIds :
            (LookupStep(r) /\ OtherInFlight(r)) =>
                IF HasEntry(caches, req[r].url)
                THEN /\ req'[r].pc = "answered"
                     /\ req'[r].outcome = Fulfilled(FirstStored(caches, req[r].url))
                     /\ req'[r].netSent = <<>>
                ELSE /\ req'[r].pc = "fetching"
                     /\ req'[r].netSent = <<req[r].url>>
                     /\ req'[r].outcome = NoOutcome]_vars
    /\ [][\A r \in RequestIds :
            (req[r].pc = "fetching" /\ req'[r].pc = "answered") =>
                /\ req'[r].reply \in NetworkResults(req[r].url)
                /\ req'[r].outcome = req'[r].reply
                /\ req'[r].netSent = <<req[r].url>>]_vars

\* C18: with no install or activate running, the second request was
\* dispatched and answered while the first was waiting for the network.
C18_Witness ==
    /\ phase = "activated"
    /\ req[1].pc = "fetching"
    /\ req[2].pc = "answered"
    /\ req[2].url # req[1].url

\* The names for which the running activate listener has a caches.delete
\* call outstanding.
AskedToDelete == {d.key : d \in {x \in deleting : x.by = instance}}

\* The names of a key list that begin with APP_PREFIX and are not
\* CACHE_NAME.
StaleGenerations(keys) == {k \in Range(keys) : StringIndexOf(k, APP_PREFIX) = 0 /\ k # CACHE_NAME}

\* C19 (delete set): for every list of existing cache names (every sub-list
\* of a key list the store has returned), the names caches.delete is called
\* for are exactly those with APP_PREFIX at index 0 that are not CACHE_NAME,
\* so a name without the prefix, or with it only at a later position, is
\* not among them; and the step of the caches.keys() callback issues
\* exactly these calls for the key list it was given.
C19_DeleteSet ==
    /\ [](activatePc \in {"callback", "waiting"} =>
            \A keys \in SubLists(keyList) :
                /\ DeletedFor(keys) = StaleGenerations(keys)
                /\ \A k \in Range(keys) :
                      (StringIndexOf(k, APP_PREFIX) = -1 \/ StringIndexOf(k, APP_PREFIX) > 0)
                          => k \notin DeletedFor(keys))
    /\ [][(activatePc = "callback" /\ activatePc' = "waiting") =>
            {d.key : d \in deleting' \ deleting} = StaleGenerations(keyList)]_vars
    /\ [](activatePc = "waiting" => AskedToDelete \subseteq StaleGenerations(keyList))

\* C19: the callback ran on a store holding an earlier generation, the
\* current cache, another app's cache and a cache with the prefix inside
\* its name, and asked to delete the earlier generation only.
C19_Witness ==
    /\ activatePc = "waiting"
    /\ {StaleName, CACHE_NAME, OtherAppName, InfixName} \subseteq Range(keyList)
    /\ StringIndexOf(InfixName, APP_PREFIX) > 0
    /\ StringIndexOf(OtherAppName, APP_PREFIX) = -1
    /\ AskedToDelete = {StaleName}

====
